---------------------------- MODULE Spec2Model ----------------------------
(***************************************************************************)
(* The lobby / round state machine of the element-battle game server       *)
(* (src/server.js).  One action per socket.io handler; the playerChoice    *)
(* handler is split at its only suspension point, the await of             *)
(* evaluateAbilities, which suspends on the network only when an API key   *)
(* is configured.                                                          *)
(*                                                                         *)
(* JavaScript objects are kept by reference: `heap` maps an object id to   *)
(* a room object, `lobbies` maps a room code to the id it is registered    *)
(* under, and a suspended handler keeps the id of the room object it       *)
(* looked up, which stays alive after `delete lobbies[code]`.              *)
(*                                                                         *)
(* Elements are opaque labels that no handler inspects.  A submission      *)
(* keeps one tag per element telling where the element came from           *)
(* ("chosen" by the client, appended by the "server", drawn for the "ai"); *)
(* a roundStart keeps the length of each set it carries.  The draw itself  *)
(* is randomElements below.                                                *)
(***************************************************************************)
EXTENDS Integers, Sequences, FiniteSets, TLC

(* ------------------------------ bounds -------------------------------- *)
\* Math.random() yields k / RandGrain, k in 0 .. RandGrain-1, where a power is
\* drawn, and k / TypeGrain, k in 0 .. TypeGrain-1, where a round type is
RandGrain  == 2
\* randomElements() is called on its own with count in 0 .. DrawCount
DrawCount  == 11
TypeGrain  == 3

\* The lobby specification Spec: two connections, the first round.
MaxRound   == 1      \* startRound is not taken from this currentRound on
MaxPlayers == 2      \* joinRoom is not taken on a room with this many players
MaxPending == 3      \* playerChoice is not taken on a pending this long
MaxTasks   == 1      \* playerChoice handlers suspended in arbitration
MaxScore   == 1      \* playerChoice is not taken once a player has this score
MaxOverlap == 2      \* events handled while handlers are suspended in arbitration

\* The whole-game specification SpecGame: one connection, every round.
GameRound   == 6
GamePlayers == 2
GamePending == 1
GameTasks   == 1
GameScore   == 1
GameOverlap == 3

\* The registry specification SpecRooms: one connection, two room codes, no
\* round started.
RoomsRound   == 0
RoomsPlayers == 2
RoomsPending == 1
RoomsTasks   == 1
RoomsScore   == 1
RoomsOverlap == 1

\* The overlap specification SpecRace: one connection, one room code, two
\* playerChoice handlers suspended in arbitration at a time.
RaceRound   == 1
RacePlayers == 1
RacePending == 3
RaceTasks   == 2
RaceScore   == 1
RaceOverlap == 3

(* ------------------------- program constants -------------------------- *)
ROUND_LIMIT == 5
POWER_SPAN  == 101
SET_SIZE    == 3

ELEMENTS ==
  <<"Fire", "Water", "Earth", "Air", "Lightning",
    "Ice", "Metal", "Nature", "Shadow", "Light">>

(* ------------------------------ inputs -------------------------------- *)
LobbySockets == <<"s1", "s2">>     \* socket.id of the connections, in order
GameSockets  == <<"s1">>
LobbyCodes   == {"AAAA"}           \* the codes createRoom can draw
GameCodes    == {"AAAA"}
RoomsSockets == <<"s1">>
RoomsCodes   == {"AAAA", "BBBB"}
Usernames    == {"ann"}
Descriptions == {"zap"}
ImageUrls    == {"img"}
Answers      == {"A", "B", "other", "error"}

Rand == 0 .. (RandGrain - 1)

\* Math.floor(Math.random() * n) for Math.random() = k / RandGrain
RandFloor(k, n) == (k * n) \div RandGrain

TypeRand == 0 .. (TypeGrain - 1)

\* Math.random() < pct / 100 for Math.random() = k / TypeGrain
RandBelow(k, pct) == k * 100 < pct * TypeGrain

(* ----------------------------- helpers -------------------------------- *)
Range(s) == {s[i] : i \in DOMAIN s}

\* Array.prototype.splice(idx, 1) on a 1-based sequence
Splice(s, idx) == [i \in 1 .. (Len(s) - 1) |-> IF i < idx THEN s[i] ELSE s[i + 1]]

\* Array.prototype.findIndex on ids, 1-based, 0 when absent
FindIndex(players, id) ==
  IF \E i \in DOMAIN players : players[i].id = id
    THEN CHOOSE i \in DOMAIN players :
           /\ players[i].id = id
           /\ \A j \in 1 .. (i - 1) : players[j].id # id
    ELSE 0

\* room.players.map(p => ({ name: p.name, score: p.score }))
Scores(room) ==
  [i \in DOMAIN room.players |->
     [name |-> room.players[i].name, score |-> room.players[i].score]]

(* --------------------------- randomElements --------------------------- *)
\* the loop of randomElements() with the drawn element left in the copy
RECURSIVE DrawLoopKept(_, _, _, _, _)
DrawLoopKept(copy, result, i, count, rs) ==
  IF i < count /\ Len(copy) > 0
    THEN LET idx == RandFloor(rs[i + 1], Len(copy)) + 1
         IN  DrawLoopKept(copy, Append(result, copy[idx]), i + 1, count, rs)
    ELSE result

RECURSIVE DrawLoop(_, _, _, _, _)
DrawLoop(copy, result, i, count, rs) ==
  IF i < count /\ Len(copy) > 0
    THEN LET idx == RandFloor(rs[i + 1], Len(copy)) + 1
         IN  DrawLoop(Splice(copy, idx), Append(result, copy[idx]), i + 1, count, rs)
    ELSE result

\* rs[i] is the value Math.random() returns in iteration i
randomElements(count, rs) == DrawLoop(ELEMENTS, <<>>, 0, count, rs)

\* what the loop leaves of the copy it splices
RECURSIVE CopyLeft(_, _, _, _)
CopyLeft(copy, i, count, rs) ==
  IF i < count /\ Len(copy) > 0
    THEN CopyLeft(Splice(copy, RandFloor(rs[i + 1], Len(copy)) + 1), i + 1, count, rs)
    ELSE copy

\* const copy = [...ELEMENTS]: the loop splices the copy and the catalog
\* array is not written
Drawn(catalog, count, rs) ==
  [catalog |-> catalog,
   copy    |-> CopyLeft(catalog, 0, count, rs),
   result  |-> DrawLoop(catalog, <<>>, 0, count, rs)]

\* the lengths randomElements() can return for a set of a round
SetLengths == {Len(randomElements(SET_SIZE, rs)) : rs \in [1 .. SET_SIZE -> Rand]}

(* ----------------------------- variables ------------------------------ *)
VARIABLES
  lim,        \* the bounds of the specification, fixed by its initial state
  apiKey,     \* process.env.OPENAI_API_KEY is set
  nextSock,   \* number of connections opened so far
  connected,  \* ids of the sockets currently connected
  keys,       \* Object.keys(lobbies): the registered codes in insertion order
  lobbies,    \* room code -> id of the room object
  heap,       \* id -> room object
  tasks,      \* playerChoice handlers suspended in evaluateAbilities
  overlap,    \* events handled since a handler was first left suspended
  emitted,    \* the events the last handler step emitted, in order
  ended,      \* the codes a gameOver has been broadcast to
  call,       \* a call of a helper function: its arguments and its result
  last        \* the last handler step and what it observed

vars == <<lim, apiKey, nextSock, connected, keys, lobbies, heap, tasks, overlap,
          emitted, ended, call, last>>

Codes == DOMAIN lobbies

Room(code) == heap[lobbies[code]]

\* The objects still referenced: the registered rooms in key order, then the
\* rooms the suspended handlers hold.
Refs(ks, lb, ts) ==
  [i \in 1 .. Len(ks) |-> lb[ks[i]]] \o [i \in 1 .. Len(ts) |-> ts[i].room]

\* the number of distinct objects up to the first reference to o
Rank(refs, o) ==
  LET first == CHOOSE i \in DOMAIN refs :
                 refs[i] = o /\ \A j \in 1 .. (i - 1) : refs[j] # o
  IN  Cardinality({refs[j] : j \in 1 .. first})

\* The next registry, heap and handlers.  Unreferenced objects are dropped
\* (garbage) and the others are numbered in the order of Refs, so that an
\* object's id says nothing but which object it is.
Store(h, ks, lb, ts) ==
  LET refs   == Refs(ks, lb, ts)
      obj(r) == CHOOSE o \in Range(refs) : Rank(refs, o) = r
  IN  /\ keys' = ks
      /\ lobbies' = [c \in DOMAIN lb |-> Rank(refs, lb[c])]
      /\ tasks' = [i \in DOMAIN ts |-> [ts[i] EXCEPT !.room = Rank(refs, @)]]
      /\ heap' = [r \in 1 .. Cardinality(Range(refs)) |-> h[obj(r)]]

Without(f, c) == [x \in (DOMAIN f) \ {c} |-> f[x]]

RemoveKey(ks, c) == SelectSeq(ks, LAMBDA k : k # c)

LobbyBounds ==
  [sockets |-> LobbySockets, codes |-> LobbyCodes, rounds |-> MaxRound,
   players |-> MaxPlayers, pending |-> MaxPending, tasks |-> MaxTasks,
   score |-> MaxScore, overlap |-> MaxOverlap]

GameBounds ==
  [sockets |-> GameSockets, codes |-> GameCodes, rounds |-> GameRound,
   players |-> GamePlayers, pending |-> GamePending, tasks |-> GameTasks,
   score |-> GameScore, overlap |-> GameOverlap]

RoomsBounds ==
  [sockets |-> RoomsSockets, codes |-> RoomsCodes, rounds |-> RoomsRound,
   players |-> RoomsPlayers, pending |-> RoomsPending, tasks |-> RoomsTasks,
   score |-> RoomsScore, overlap |-> RoomsOverlap]

RaceBounds ==
  [sockets |-> GameSockets, codes |-> GameCodes, rounds |-> RaceRound,
   players |-> RacePlayers, pending |-> RacePending, tasks |-> RaceTasks,
   score |-> RaceScore, overlap |-> RaceOverlap]

RoomCodes == lim.codes

\* the server after server.listen: no connection, no room
Boot ==
  /\ apiKey \in BOOLEAN
  /\ nextSock = 0
  /\ connected = {}
  /\ keys = <<>>
  /\ lobbies = <<>>
  /\ heap = <<>>
  /\ tasks = <<>>
  /\ overlap = 0
  /\ emitted = <<>>
  /\ ended = {}
  /\ last = [op |-> "listen", socket |-> "-", roomCode |-> "-", found |-> FALSE,
             plen |-> 0, task |-> 0]

\* no helper function is called on its own
NoCall == [fn |-> "none"]

Init == Boot /\ lim = LobbyBounds /\ call = NoCall

InitGame == Boot /\ lim = GameBounds /\ call = NoCall

InitRooms == Boot /\ lim = RoomsBounds /\ call = NoCall

InitRace == Boot /\ lim = RaceBounds /\ call = NoCall

(* ------------------------------ handlers ------------------------------ *)
\* io.on('connection', socket => ...)
Connect ==
  /\ nextSock < Len(lim.sockets)
  /\ nextSock' = nextSock + 1
  /\ connected' = connected \cup {lim.sockets[nextSock + 1]}
  /\ emitted' = <<>>
  /\ last' = [op |-> "connection", socket |-> lim.sockets[nextSock + 1],
              roomCode |-> "-", found |-> FALSE, plen |-> 0, task |-> 0]
  /\ UNCHANGED <<lim, apiKey, keys, lobbies, heap, tasks>>

NewRoom(s, username) ==
  [players     |-> <<[id |-> s, name |-> username, score |-> 0]>>,
   currentRound |-> 0,
   roundType   |-> "standard",
   pending     |-> <<>>]

CreateRoom(s, username, roomCode) ==
  LET o  == Len(heap) + 1
      lb == [c \in Codes \cup {roomCode} |-> IF c = roomCode THEN o ELSE lobbies[c]]
      ks == IF roomCode \in Codes THEN keys ELSE Append(keys, roomCode)
  IN  /\ s \in connected
      /\ Store(Append(heap, NewRoom(s, username)), ks, lb, tasks)
      /\ emitted' = <<[type |-> "roomCreated", to |-> s, roomCode |-> roomCode]>>
      /\ last' = [op |-> "createRoom", socket |-> s, roomCode |-> roomCode,
                  found |-> roomCode \in Codes, plen |-> 0, task |-> 0]
      /\ UNCHANGED <<lim, apiKey, nextSock, connected>>

JoinedFirst(room, s, username) ==
  [room EXCEPT !.players = <<[id |-> s, name |-> username, score |-> 0]>> \o @]

JoinedRoom(room, s, username) ==
  [room EXCEPT !.players = Append(@, [id |-> s, name |-> username, score |-> 0])]

JoinRoom(s, username, roomCode) ==
  /\ s \in connected
  /\ roomCode \in Codes => Len(Room(roomCode).players) < lim.players
  /\ last' = [op |-> "joinRoom", socket |-> s, roomCode |-> roomCode,
              found |-> roomCode \in Codes, plen |-> 0, task |-> 0]
  /\ IF roomCode \notin Codes
       THEN /\ emitted' = <<[type |-> "errorMessage", to |-> s,
                             message |-> "Room not found"]>>
            /\ UNCHANGED heap
       ELSE LET room == JoinedRoom(Room(roomCode), s, username)
            IN  /\ heap' = [heap EXCEPT ![lobbies[roomCode]] = room]
                /\ emitted' = <<[type |-> "roomJoined", to |-> roomCode,
                                 players |-> room.players]>>
  /\ UNCHANGED <<lim, apiKey, nextSock, connected, keys, lobbies, tasks>>

Noisy == <<[type |-> "errorMessage", to |-> "-", message |-> "Room not found"]>>

\* if (!room) return: what a handler emits when the room is absent
Silent == <<>>

\* the round type startRound picks for Math.random() = k / TypeGrain
RoundTypeOf(k) ==
  IF RandBelow(k, 33) THEN "missing"
  ELSE IF RandBelow(k, 66) THEN "evolution"
  ELSE "standard"

NumSets(type) ==
  IF type = "missing" THEN 1 ELSE IF type = "evolution" THEN 3 ELSE 2

StartedRoundSkipping(room, type) ==
  [room EXCEPT !.currentRound = @ + 2, !.pending = <<>>, !.roundType = type]

\* room.currentRound++; room.pending = []; room.roundType = type
StartedRound(room, type) ==
  [room EXCEPT !.currentRound = @ + 1, !.pending = <<>>, !.roundType = type]

\* startRound(roomCode); sets[i] is the length of the i-th element set drawn
startRound(roomCode, k, sets) ==
  IF roomCode \notin Codes
    THEN /\ emitted' = Silent
         /\ UNCHANGED heap
    ELSE LET room == StartedRound(Room(roomCode), RoundTypeOf(k))
         IN  /\ heap' = [heap EXCEPT ![lobbies[roomCode]] = room]
             /\ emitted' = <<[type |-> "roundStart", to |-> roomCode,
                              round |-> room.currentRound, rtype |-> room.roundType,
                              sets |-> sets, scores |-> Scores(room)]>>

RoundCap(roomCode) == roomCode \in Codes => Room(roomCode).currentRound < lim.rounds

StartGame(s, roomCode) ==
  /\ s \in connected
  /\ RoundCap(roomCode)
  /\ \E k \in TypeRand : \E sets \in [1 .. NumSets(RoundTypeOf(k)) -> SetLengths] :
       startRound(roomCode, k, sets)
  /\ last' = [op |-> "startGame", socket |-> "-", roomCode |-> roomCode,
              found |-> roomCode \in Codes, plen |-> 0, task |-> 0]
  /\ UNCHANGED <<lim, apiKey, nextSock, connected, keys, lobbies, tasks>>

\* the Submission createAIPlayer pushes; k is its Math.random() for power
AISubmission(k) ==
  [playerId    |-> "AI",
   name        |-> "AI Bot",
   elements    |-> <<"ai", "ai">>,
   description |-> "AI uses",
   imageUrl    |-> "",
   power       |-> RandFloor(k, POWER_SPAN)]

createAIPlayer(room, k) == [room EXCEPT !.pending = Append(@, AISubmission(k))]

ArbitratedAtRandom(a, b, answer, pa, pb) ==
  <<[a EXCEPT !.power = pa], [b EXCEPT !.power = pb]>>

\* the assignments of evaluateAbilities(a, b): pa and pb are the two values
\* Math.floor(Math.random() * 101) returns
Arbitrated(a, b, answer, pa, pb) ==
  IF answer = "A"
    THEN <<[a EXCEPT !.power = pb + 1], [b EXCEPT !.power = pb]>>
  ELSE IF answer = "B"
    THEN <<[a EXCEPT !.power = pa], [b EXCEPT !.power = pa + 1]>>
  ELSE <<[a EXCEPT !.power = pa], [b EXCEPT !.power = pb]>>

\* evaluateAbilities(a, b): answer is the oracle's reply ("error": the call
\* threw, or no key is set), ra and rb the two Math.random() values
evaluateAbilities(a, b, answer, ra, rb) ==
  Arbitrated(a, b, answer, RandFloor(ra, POWER_SPAN), RandFloor(rb, POWER_SPAN))

WinnerOnDraw(a, b) ==
  IF a.power >= b.power THEN a.playerId ELSE b.playerId

Winner(a, b) ==
  IF a.power > b.power THEN a.playerId
  ELSE IF b.power > a.power THEN b.playerId
  ELSE "tie"

ScoredAll(players, winner) ==
  IF winner # "tie"
    THEN [i \in DOMAIN players |-> [players[i] EXCEPT !.score = @ + 1]]
    ELSE players

\* const w = room.players.find(p => p.id === winner); if (w) w.score++
Scored(players, winner) ==
  LET i == FindIndex(players, winner)
  IN  IF winner # "tie" /\ i # 0
        THEN [players EXCEPT ![i].score = @ + 1]
        ELSE players

\* The playerChoice handler from the return of evaluateAbilities on, for the
\* suspended handler t: a and b are pending[0] and pending[1] of the room
\* object as long as startRound has not replaced its pending array.
Battle(h, t, answer, ra, rb) ==
  LET ab     == evaluateAbilities(t.a, t.b, answer, ra, rb)
      room0  == h[t.room]
      room1  == IF room0.currentRound = t.round
                  THEN [room0 EXCEPT !.pending[1] = ab[1], !.pending[2] = ab[2]]
                  ELSE room0
      winner == Winner(ab[1], ab[2])
      room2  == [room1 EXCEPT !.players = Scored(@, winner)]
  IN  [heap  |-> [h EXCEPT ![t.room] = room2],
       event |-> [type |-> "battleResult", to |-> t.roomCode,
                  round |-> room2.currentRound, winner |-> winner,
                  abilities |-> ab, scores |-> Scores(room2),
                  narrative |-> <<ab[1].name, ab[1].elements,
                                  ab[2].name, ab[2].elements>>]]

\* room.players.find(p => p.id === socket.id)?.name || 'Unknown'
NameOf(room, s) ==
  LET i == FindIndex(room.players, s)
  IN  IF i = 0 THEN "Unknown" ELSE room.players[i].name

NotPadded(room, elements) == elements

\* if (room.roundType === 'missing') elements.push(randomElements(1)[0])
Padded(room, elements) ==
  IF room.roundType = "missing" THEN Append(elements, "server") ELSE elements

Submission(room, s, elements, description, imageUrl) ==
  [playerId    |-> s,
   name        |-> NameOf(room, s),
   elements    |-> Padded(room, elements),
   description |-> description,
   imageUrl    |-> imageUrl,
   power       |-> 0]

\* The payload the reference client sends: `selected` holds one element per
\* set of the last roundStart, and nothing before the first one.
Selected(room) ==
  IF room.currentRound = 0
    THEN <<>>
    ELSE [i \in 1 .. NumSets(room.roundType) |-> "chosen"]

NeedsAISolo(room) == Len(room.players) = 1

\* room.players.length === 1 && room.pending.length === 1
NeedsAI(room) == Len(room.players) = 1 /\ Len(room.pending) = 1

Ready(room) == Len(room.pending) >= 2

PlayerChoice(s, roomCode, description, imageUrl) ==
  /\ s \in connected
  /\ IF roomCode \notin Codes
       THEN /\ emitted' = Silent
            /\ last' = [op |-> "playerChoice", socket |-> s, roomCode |-> roomCode,
                        found |-> FALSE, plen |-> 0, task |-> 0]
            /\ UNCHANGED <<heap, tasks>>
       ELSE LET o     == lobbies[roomCode]
                room0 == heap[o]
                room1 == [room0 EXCEPT !.pending =
                            Append(@, Submission(room0, s, Selected(room0), description, imageUrl))]
            IN  /\ Len(room0.pending) < lim.pending
                /\ \A i \in DOMAIN room0.players : room0.players[i].score < lim.score
                /\ \E k \in (IF NeedsAI(room1) THEN Rand ELSE {0}) :
                     LET room2 == IF NeedsAI(room1) THEN createAIPlayer(room1, k) ELSE room1
                         t     == [roomCode |-> roomCode, room |-> o,
                                   round |-> room2.currentRound,
                                   spawned |-> NeedsAI(room1),
                                   a |-> [room2.pending[1] EXCEPT !.power = 0],
                                   b |-> [room2.pending[2] EXCEPT !.power = 0]]
                         h2    == [heap EXCEPT ![o] = room2]
                     IN  /\ last' = [op |-> "playerChoice", socket |-> s,
                                     roomCode |-> roomCode, found |-> TRUE,
                                     plen |-> Len(room2.pending), task |-> 0]
                         /\ IF ~Ready(room2)
                              THEN /\ heap' = h2
                                   /\ emitted' = <<>>
                                   /\ UNCHANGED tasks
                            ELSE IF apiKey
                              THEN /\ Len(tasks) < lim.tasks
                                   /\ heap' = h2
                                   /\ tasks' = Append(tasks, t)
                                   /\ emitted' = <<>>
                            ELSE \E ra \in Rand, rb \in Rand :
                                   LET r == Battle(h2, t, "error", ra, rb)
                                   IN  /\ heap' = r.heap
                                       /\ emitted' = <<r.event>>
                                       /\ UNCHANGED tasks
  /\ UNCHANGED <<lim, apiKey, nextSock, connected, keys, lobbies>>

\* a suspended playerChoice handler resumes when evaluateAbilities returns
Resume(i, answer, ra, rb) ==
  LET t  == tasks[i]
      ts == Splice(tasks, i)
      r  == Battle(heap, t, answer, ra, rb)
  IN  /\ Store(r.heap, keys, lobbies, ts)
      /\ emitted' = <<r.event>>
      /\ last' = [op |-> "resume", socket |-> "-", roomCode |-> t.roomCode,
                  found |-> (t.roomCode \in Codes /\ lobbies[t.roomCode] = t.room),
                  plen |-> 0, task |-> i]
      /\ UNCHANGED <<lim, apiKey, nextSock, connected>>

GameEndsLate(room) == room.currentRound > ROUND_LIMIT

\* room.currentRound >= 5
GameEnds(room) == room.currentRound >= ROUND_LIMIT

RequestNextRound(s, roomCode) ==
  /\ s \in connected
  /\ last' = [op |-> "requestNextRound", socket |-> "-", roomCode |-> roomCode,
              found |-> roomCode \in Codes, plen |-> 0, task |-> 0]
  /\ IF roomCode \in Codes /\ GameEnds(Room(roomCode))
       THEN /\ emitted' = <<[type |-> "gameOver", to |-> roomCode,
                             scores |-> Scores(Room(roomCode))]>>
            /\ Store(heap, RemoveKey(keys, roomCode), Without(lobbies, roomCode), tasks)
       ELSE /\ RoundCap(roomCode)
            /\ \E k \in TypeRand : \E sets \in [1 .. NumSets(RoundTypeOf(k)) -> SetLengths] :
                 startRound(roomCode, k, sets)
            /\ UNCHANGED <<keys, lobbies, tasks>>
  /\ UNCHANGED <<lim, apiKey, nextSock, connected>>

\* the first code of Object.keys(lobbies) whose room has s as a player, or "none"
FirstRoomOf(s) ==
  LET hit(i) == FindIndex(Room(keys[i]).players, s) # 0
  IN  IF \E i \in DOMAIN keys : hit(i)
        THEN keys[CHOOSE i \in DOMAIN keys : hit(i) /\ \A j \in 1 .. (i - 1) : ~hit(j)]
        ELSE "none"

NeverEmptied(room) == FALSE

\* room.players.length === 0
Emptied(room) == Len(room.players) = 0

\* room.players.length === 1
Alone(room) == Len(room.players) = 1

Disconnect(s) ==
  LET code == FirstRoomOf(s)
  IN  /\ s \in connected
      /\ connected' = connected \ {s}
      /\ IF code = "none"
           THEN /\ emitted' = <<>>
                /\ last' = [op |-> "disconnect", socket |-> s, roomCode |-> code,
                            found |-> FALSE, plen |-> 0, task |-> 0]
                /\ UNCHANGED <<keys, lobbies, heap, tasks>>
           ELSE LET o     == lobbies[code]
                    room0 == heap[o]
                    room1 == [room0 EXCEPT !.players =
                                Splice(@, FindIndex(room0.players, s))]
                IN  /\ emitted' = <<[type |-> "playerLeft", to |-> code, id |-> s]>>
                    /\ last' = [op |-> "disconnect", socket |-> s, roomCode |-> code,
                                found |-> TRUE, plen |-> 0, task |-> 0]
                    /\ IF Emptied(room1)
                         THEN Store([heap EXCEPT ![o] = room1], RemoveKey(keys, code),
                                    Without(lobbies, code), tasks)
                       ELSE IF Alone(room1)
                         THEN /\ \E k \in Rand :
                                   heap' = [heap EXCEPT ![o] = createAIPlayer(room1, k)]
                              /\ UNCHANGED <<keys, lobbies, tasks>>
                       ELSE /\ heap' = [heap EXCEPT ![o] = room1]
                            /\ UNCHANGED <<keys, lobbies, tasks>>
      /\ UNCHANGED <<lim, apiKey, nextSock>>

\* the codes the events es announce a gameOver to
GameOvers(es) == {es[i].to : i \in {j \in DOMAIN es : es[j].type = "gameOver"}}

\* An event arrives from the network: at most lim.overlap of them are handled
\* while handlers stay suspended.
Event ==
  /\ tasks # <<>> => overlap < lim.overlap
  /\ overlap' = IF tasks = <<>> \/ tasks' = <<>> THEN 0 ELSE overlap + 1
  /\ ended' = ended \cup GameOvers(emitted')
  /\ UNCHANGED call

\* An arbitration call returns.
Return ==
  /\ overlap' = IF tasks' = <<>> THEN 0 ELSE overlap
  /\ UNCHANGED <<ended, call>>

Next ==
  \/ Connect /\ Event
  \/ \E s \in connected, u \in Usernames, c \in RoomCodes : CreateRoom(s, u, c) /\ Event
  \/ \E s \in connected, u \in Usernames, c \in RoomCodes : JoinRoom(s, u, c) /\ Event
  \/ \E s \in connected, c \in RoomCodes : StartGame(s, c) /\ Event
  \/ \E s \in connected, c \in RoomCodes, d \in Descriptions, u \in ImageUrls :
       PlayerChoice(s, c, d, u) /\ Event
  \/ \E i \in DOMAIN tasks, w \in Answers, ra \in Rand, rb \in Rand :
       Resume(i, w, ra, rb) /\ Return
  \/ \E s \in connected, c \in RoomCodes : RequestNextRound(s, c) /\ Event
  \/ \E s \in connected : Disconnect(s) /\ Event

Spec == Init /\ [][Next]_vars

SpecGame == InitGame /\ [][Next]_vars

SpecRooms == InitRooms /\ [][Next]_vars

SpecRace == InitRace /\ [][Next]_vars

(* ------------------------- randomElements alone ----------------------- *)
\* the server, with no event handled
Idle ==
  UNCHANGED <<lim, apiKey, nextSock, connected, keys, lobbies, heap, tasks,
              overlap, emitted, ended, last>>

\* randomElements(count) is about to run: rs[i] is the value Math.random()
\* returns in iteration i
DrawCalls ==
  {[fn |-> "randomElements", done |-> FALSE, count |-> n, rs |-> rs,
    catalog |-> ELEMENTS, copy |-> <<>>, result |-> <<>>] :
     n \in 0 .. DrawCount, rs \in [1 .. DrawCount -> Rand]}

InitDraw == Boot /\ lim = LobbyBounds /\ call \in DrawCalls

\* the call runs to its return
RunDraw ==
  /\ call.fn = "randomElements"
  /\ ~call.done
  /\ LET r == Drawn(call.catalog, call.count, call.rs)
     IN  call' = [call EXCEPT !.done = TRUE, !.catalog = r.catalog,
                              !.copy = r.copy, !.result = r.result]
  /\ Idle

NextDraw == RunDraw

SpecDraw == InitDraw /\ [][NextDraw]_vars

(* ------------------------ evaluateAbilities alone --------------------- *)
\* the powers Math.floor(Math.random() * 101) can return
Powers == 0 .. (POWER_SPAN - 1)

\* a player's submission as playerChoice pushes it
PlayerSubmission ==
  [playerId    |-> "s1",
   name        |-> "ann",
   elements    |-> <<"chosen">>,
   description |-> "zap",
   imageUrl    |-> "img",
   power       |-> 0]

\* evaluateAbilities(a, b) is about to assign the powers: the oracle has
\* answered, or failed, and pa and pb are the two baseline draws
ArbitrateCalls ==
  {[fn |-> "evaluateAbilities", done |-> FALSE, answer |-> w, pa |-> pa, pb |-> pb,
    a |-> PlayerSubmission, b |-> AISubmission(0), winner |-> "-"] :
     w \in Answers, pa \in Powers, pb \in Powers}

InitArbitrate == Boot /\ lim = LobbyBounds /\ call \in ArbitrateCalls

\* the call returns [a, b] and the handler names the winner
RunArbitrate ==
  /\ call.fn = "evaluateAbilities"
  /\ ~call.done
  /\ LET ab == Arbitrated(call.a, call.b, call.answer, call.pa, call.pb)
     IN  call' = [call EXCEPT !.done = TRUE, !.a = ab[1], !.b = ab[2],
                              !.winner = Winner(ab[1], ab[2])]
  /\ Idle

NextArbitrate == RunArbitrate

SpecArbitrate == InitArbitrate /\ [][NextArbitrate]_vars

(* ------------------------------ properties ---------------------------- *)
Registry == <<keys, lobbies, heap, tasks>>

NotFound(s) == [type |-> "errorMessage", to |-> s, message |-> "Room not found"]

GameOver(code, room) == [type |-> "gameOver", to |-> code, scores |-> Scores(room)]

\* the handlers that look the room up and return when it is absent
Lookups == {"startGame", "playerChoice", "requestNextRound"}

\* C1: every registered room's currentRound lies in 0 .. 5, whatever events
\* were handled; repeated startGame events do not push it past 5.
C1_RoundBounded ==
  \A c \in Codes : Room(c).currentRound \in 0 .. ROUND_LIMIT

\* the step is a requestNextRound for a registered room in round 5
EndsGame ==
  /\ last'.op = "requestNextRound"
  /\ last'.roomCode \in Codes
  /\ Room(last'.roomCode).currentRound = ROUND_LIMIT

\* ... it broadcasts gameOver with the scores, no roundStart, and unregisters
GameOverStep ==
  EndsGame =>
    /\ emitted' = <<GameOver(last'.roomCode, Room(last'.roomCode))>>
    /\ last'.roomCode \notin Codes'
    /\ last'.roomCode \in ended'

\* a handler addressed to code c finds no room
FailedLookup(c) ==
  /\ last'.roomCode = c /\ last'.op = "joinRoom" =>
       emitted' = <<NotFound(last'.socket)>> /\ UNCHANGED Registry
  /\ last'.roomCode = c /\ last'.op \in Lookups =>
       emitted' = <<>> /\ UNCHANGED Registry

\* C2 (as stated): a requestNextRound for a registered room in round 5
\* broadcasts gameOver with the scores and no roundStart and unregisters the
\* room, and every later joinRoom on that code gets 'Room not found', every
\* later startGame / playerChoice / requestNextRound on it is a no-op.
C2_Original ==
  [][GameOverStep /\ \A c \in ended : FailedLookup(c)]_vars

\* C2 (amended): a requestNextRound for a registered room in round 5
\* broadcasts gameOver with the scores and no roundStart and unregisters the
\* room; the code stays unregistered until a createRoom draws it again, and
\* until then every joinRoom on it gets 'Room not found' and every startGame /
\* playerChoice / requestNextRound on it is a no-op.
C2_GameOverRemoves ==
  [][/\ GameOverStep
     /\ \A c \in ended \ Codes :
          /\ FailedLookup(c)
          /\ c \in Codes' => last'.op = "createRoom" /\ last'.roomCode = c]_vars

\* a joinRoom on the code of an ended game was answered 'Room not found'
C2_Witness ==
  /\ last.op = "joinRoom"
  /\ last.roomCode \in ended
  /\ emitted = <<NotFound(last.socket)>>

\* C3: whenever a playerChoice handler enters the 'pending.length >= 2'
\* branch, pending has exactly 2 entries.
C3_ResolvesAtTwo ==
  last.op = "playerChoice" /\ last.plen >= 2 => last.plen = 2

\* C4: every registered room has at least one player.
C4_NoEmptyRoom ==
  \A c \in Codes : Len(Room(c).players) >= 1

\* the disconnect of a room's last player has unregistered the room
C4_Witness ==
  /\ last.op = "disconnect"
  /\ last.found
  /\ last.roomCode \notin Codes

\* the room registered under c after the step
RoomAfter(c) == heap'[lobbies'[c]]

\* the battleResult events among es
Results(es) == {es[i] : i \in {j \in DOMAIN es : es[j].type = "battleResult"}}

\* the id of the room object the step resolves a battle of
ResolvedId ==
  IF last'.op = "resume" THEN tasks[last'.task].room ELSE lobbies[last'.roomCode]

\* that room object before the step
ResolvedRoom == heap[ResolvedId]

\* C5: in every resolution, the reported winner is the playerId of the
\* submission with the greater power; with equal powers the winner is 'tie'
\* and no player's score changes.
C5_WinnerByPower ==
  [][\A e \in Results(emitted') :
       LET a == e.abilities[1]
           b == e.abilities[2]
       IN  /\ a.power > b.power => e.winner = a.playerId
           /\ b.power > a.power => e.winner = b.playerId
           /\ a.power = b.power =>
                /\ e.winner = "tie"
                /\ e.scores = Scores(ResolvedRoom)
                /\ \A c \in Codes : c \in Codes' /\ Scores(RoomAfter(c)) = Scores(Room(c))]_vars

\* a battle of two players' submissions ended in a tie
C5_Witness ==
  \E e \in Results(emitted) :
    /\ e.winner = "tie"
    /\ e.abilities[1].power = e.abilities[2].power
    /\ e.abilities[2].playerId # "AI"

\* C6: in a registered room with exactly one player, a playerChoice brings
\* pending to length 2 with an AI submission in it, and exactly one
\* battleResult is due for it: broadcast by the handler, or by its
\* continuation once the arbitration call returns.
C6_SoloChoice ==
  [][(/\ last'.op = "playerChoice"
      /\ last'.roomCode \in Codes
      /\ Len(Room(last'.roomCode).players) = 1) =>
       LET after == RoomAfter(last'.roomCode)
       IN  /\ Len(after.pending) = 2
           /\ \E k \in 1 .. 2 : after.pending[k].playerId = "AI"
           /\ \/ Cardinality(Results(emitted')) = 1 /\ tasks' = tasks
              \/ emitted' = <<>> /\ Len(tasks') = Len(tasks) + 1]_vars

\* the socket is a player of the room registered under c
PlayerOf(s, c) == FindIndex(Room(c).players, s) # 0

\* C7: when a socket that is a player of a room disconnects, the room is
\* unregistered if it was its only player; if the room had exactly two
\* players it stays registered with exactly the other one, and exactly one
\* AI submission is appended to its pending, whatever pending held.
C7_DisconnectReconciles ==
  [][last'.op = "disconnect" =>
       \A c \in Codes :
         PlayerOf(last'.socket, c) =>
           LET room == Room(c)
               idx  == FindIndex(room.players, last'.socket)
           IN  /\ Len(room.players) = 1 => c \notin Codes'
               /\ Len(room.players) = 2 =>
                    /\ c \in Codes'
                    /\ RoomAfter(c).players = <<room.players[3 - idx]>>
                    /\ Len(RoomAfter(c).pending) = Len(room.pending) + 1
                    /\ SubSeq(RoomAfter(c).pending, 1, Len(room.pending)) = room.pending
                    /\ RoomAfter(c).pending[Len(room.pending) + 1].playerId = "AI"]_vars

\* the step resolves submissions of a 'missing' round still in progress
MissingBattle ==
  /\ ResolvedRoom.roundType = "missing"
  /\ last'.op = "resume" => tasks[last'.task].round = ResolvedRoom.currentRound

\* a roundStart of a 'missing' round carries one set of three elements
MissingSets ==
  \A i \in DOMAIN emitted' :
    emitted'[i].type = "roundStart" /\ emitted'[i].rtype = "missing" =>
      emitted'[i].sets = <<SET_SIZE>>

C9_ScoreFrame ==
  [][\A e \in Results(emitted') :
       LET pre     == ResolvedRoom.players
           hits    == {i \in DOMAIN pre : pre[i].id = e.winner}
           changed == {i \in DOMAIN pre : e.scores[i].score # pre[i].score}
       IN  /\ DOMAIN e.scores = DOMAIN pre
           /\ hits # {} =>
                \E i \in hits : changed = {i} /\ e.scores[i].score = pre[i].score + 1
           /\ hits = {} => changed = {}
           /\ \A c \in Codes :
                /\ c \in Codes'
                /\ Scores(RoomAfter(c)) =
                     IF lobbies[c] = ResolvedId THEN e.scores ELSE Scores(Room(c))]_vars

\* the second of two players won a battle and alone was credited
C9_Witness ==
  \E e \in Results(emitted) :
    /\ Len(e.scores) = 2
    /\ e.winner = e.abilities[2].playerId
    /\ e.winner # "AI"
    /\ e.scores[1].score = 0
    /\ e.scores[2].score = 1

\* the step left a handler suspended on the first two entries of pending
Arbitrating(c) ==
  /\ Len(tasks') = Len(tasks) + 1
  /\ tasks'[Len(tasks')].roomCode = c
  /\ tasks'[Len(tasks')].a.playerId = RoomAfter(c).pending[1].playerId
  /\ tasks'[Len(tasks')].b.playerId = RoomAfter(c).pending[2].playerId

\* the step broadcast a battleResult for the first two entries of pending
Resolved(c) ==
  \E e \in Results(emitted') :
    /\ e.to = c
    /\ e.abilities[1].playerId = RoomAfter(c).pending[1].playerId
    /\ e.abilities[2].playerId = RoomAfter(c).pending[2].playerId

\* C10: every append that brings a room's pending to length >= 2, by
\* playerChoice, by AI substitution or by the AI injection of disconnect, has
\* its battleResult for the first two entries under way: broadcast in the
\* same handler run, or pending on the arbitration call that run started.
C10_AppendResolves ==
  [][\A c \in Codes :
       (/\ c \in Codes'
        /\ Len(RoomAfter(c).pending) > Len(Room(c).pending)
        /\ Len(RoomAfter(c).pending) >= 2) =>
         Resolved(c) \/ Arbitrating(c)]_vars

\* the step resumes a handler whose room code is no longer registered
LateResume ==
  /\ last'.op = "resume"
  /\ tasks[last'.task].roomCode \notin Codes

\* C11: when the room was removed from the registry while a playerChoice
\* handler was suspended in arbitration, the resumed handler discards the
\* response: it broadcasts no battleResult for that code and changes no score
\* and no other room state.
C11_LateDiscarded ==
  [][LateResume =>
       /\ Results(emitted') = {}
       /\ UNCHANGED <<keys, lobbies>>
       /\ \A c \in Codes : RoomAfter(c) = Room(c)]_vars

\* C12: a joinRoom on a code that is not registered answers errorMessage to
\* the sender only, registers no room and changes no room; a joinRoom on a
\* registered room appends the new player, with score 0, after the existing
\* players, whose entries and order are kept, and broadcasts roomJoined with
\* the new players list to the room.
C12_JoinRoom ==
  [][last'.op = "joinRoom" =>
       LET c == last'.roomCode
       IN  /\ Codes' = Codes
           /\ \A d \in Codes \ {c} : RoomAfter(d) = Room(d)
           /\ c \notin Codes =>
                emitted' = <<NotFound(last'.socket)>> /\ UNCHANGED Registry
           /\ c \in Codes =>
                LET before == Room(c).players
                    after  == RoomAfter(c).players
                IN  /\ Len(after) = Len(before) + 1
                    /\ SubSeq(after, 1, Len(before)) = before
                    /\ after[Len(after)].id = last'.socket
                    /\ after[Len(after)].score = 0
                    /\ RoomAfter(c) = [Room(c) EXCEPT !.players = after]
                    /\ emitted' = <<[type |-> "roomJoined", to |-> c,
                                     players |-> after]>>]_vars

\* a second player has joined a registered room
C12_Witness ==
  /\ last.op = "joinRoom"
  /\ last.found
  /\ last.roomCode \in Codes
  /\ Len(Room(last.roomCode).players) = 2
  /\ Room(last.roomCode).players[2].id = last.socket
  /\ emitted # <<>>
  /\ emitted[1].type = "roomJoined"

\* C13: a startGame, playerChoice or requestNextRound addressed to a code that
\* is not registered is a silent no-op: no event is emitted, no room is
\* created, and the registry and every registered room are unchanged.
C13_AbsentNoOp ==
  [][last'.op \in Lookups /\ last'.roomCode \notin Codes =>
       /\ emitted' = <<>>
       /\ Codes' = Codes
       /\ \A c \in Codes : RoomAfter(c) = Room(c)
       /\ UNCHANGED <<keys, tasks>>]_vars

\* a playerChoice for an absent code was ignored beside a registered room
C13_Witness ==
  /\ last.op = "playerChoice"
  /\ ~last.found
  /\ last.roomCode \notin Codes
  /\ Codes # {}
  /\ emitted = <<>>

\* the step is a playerChoice whose submission lands at index >= 2 of pending
ExtraChoice ==
  /\ last'.op = "playerChoice"
  /\ last'.roomCode \in Codes
  /\ Len(Room(last'.roomCode).pending) >= 2

\* C14: only the first two entries of pending are consumed: every
\* battleResult shows pending[0] and pending[1], and a submission that lands
\* at index >= 2 is inert: it causes no battleResult, no arbitration call and
\* no score change.
C14_ExtraInert ==
  [][/\ \A e \in Results(emitted') :
          last'.op = "playerChoice" =>
            /\ e.abilities[1].playerId = RoomAfter(last'.roomCode).pending[1].playerId
            /\ e.abilities[2].playerId = RoomAfter(last'.roomCode).pending[2].playerId
     /\ ExtraChoice =>
          /\ Results(emitted') = {}
          /\ tasks' = tasks
          /\ Scores(RoomAfter(last'.roomCode)) = Scores(Room(last'.roomCode))]_vars


\* the smaller of two numbers
Min(x, y) == IF x < y THEN x ELSE y

\* C15: randomElements(n) returns min(n, 10) elements of the catalog, all
\* distinct, for every n >= 0 and whatever Math.random() returns, and leaves
\* the catalog as it was.
C15_RandomElements ==
  call.fn = "randomElements" /\ call.done =>
    /\ Len(call.result) = Min(call.count, Len(ELEMENTS))
    /\ \A i, j \in DOMAIN call.result : i # j => call.result[i] # call.result[j]
    /\ Range(call.result) \subseteq Range(ELEMENTS)
    /\ call.result = randomElements(call.count, call.rs)
    /\ call.catalog = ELEMENTS

\* a call asking for more elements than the catalog holds returned all ten
C15_Witness ==
  /\ call.fn = "randomElements"
  /\ call.done
  /\ call.count > Len(ELEMENTS)
  /\ Len(call.result) = Len(ELEMENTS)
  /\ Range(call.result) = Range(ELEMENTS)
  /\ call.copy = <<>>


\* two playerChoice handlers of one room object are suspended in arbitration
\* with no startRound of the room between them
Overlapping(i, j) ==
  /\ i # j
  /\ tasks[i].room = tasks[j].room
  /\ tasks[i].round = tasks[j].round

C17_OracleDecides ==
  call.fn = "evaluateAbilities" /\ call.done =>
    /\ call.answer = "A" =>
         /\ call.a.power = call.b.power + 1
         /\ call.b.power = call.pb
         /\ call.winner = call.a.playerId
    /\ call.answer = "B" =>
         /\ call.b.power = call.a.power + 1
         /\ call.a.power = call.pa
         /\ call.winner = call.b.playerId
    /\ call.answer \in {"A", "B"} => call.winner # "tie"
    /\ call.answer \notin {"A", "B"} =>
         /\ call.a.power = call.pa
         /\ call.b.power = call.pb
         /\ call.a.power \in 0 .. 100
         /\ call.b.power \in 0 .. 100

\* the oracle favoured A although B's baseline was the greatest there is, and
\* A was reported the winner
C17_Witness ==
  /\ call.fn = "evaluateAbilities"
  /\ call.done
  /\ call.answer = "A"
  /\ call.pa = 0
  /\ call.pb = 100
  /\ call.a.power = 101
  /\ call.winner = "s1"


\* the roundStart events among es that are broadcast to code c
Starts(es, c) ==
  {es[i] : i \in {j \in DOMAIN es : es[j].type = "roundStart" /\ es[j].to = c}}

\* the step keeps the room object registered under c (createRoom alone
\* registers another object under a code)
StaysLive(c) ==
  /\ c \in Codes
  /\ c \in Codes'
  /\ ~(last'.op = "createRoom" /\ last'.roomCode = c)

\* C18: a live room's currentRound never decreases; only startRound (run by
\* startGame and requestNextRound) changes it, by exactly +1, emptying pending
\* and leaving the players and their scores as they were; each roundStart
\* carries the new currentRound, so the rounds broadcast for a room are
\* consecutive, with no repeat and no gap.
C18_RoundsInOrder ==
  [][/\ \A i \in DOMAIN emitted' :
          emitted'[i].type = "roundStart" =>
            /\ last'.op \in {"startGame", "requestNextRound"}
            /\ emitted'[i].to = last'.roomCode
            /\ StaysLive(emitted'[i].to)
     /\ \A c \in Codes : StaysLive(c) =>
          LET before == Room(c)
              after  == RoomAfter(c)
          IN  /\ after.currentRound >= before.currentRound
              /\ after.currentRound # before.currentRound =>
                   /\ last'.op \in {"startGame", "requestNextRound"}
                   /\ last'.roomCode = c
                   /\ after.currentRound = before.currentRound + 1
                   /\ after.pending = <<>>
                   /\ after.players = before.players
                   /\ Cardinality(Starts(emitted', c)) = 1
              /\ \A e \in Starts(emitted', c) :
                   /\ e.round = before.currentRound + 1
                   /\ e.round = after.currentRound
                   /\ e.scores = Scores(before)]_vars

\* requestNextRound has started round 3 of a room whose first player holds a
\* point, with an empty pending
C18_Witness ==
  /\ last.op = "requestNextRound"
  /\ last.roomCode \in Codes
  /\ Room(last.roomCode).currentRound = 3
  /\ Room(last.roomCode).pending = <<>>
  /\ Room(last.roomCode).players[1].score = 1
  /\ \E e \in Starts(emitted, last.roomCode) : e.round = 3


\* the step resumes a handler suspended since an earlier round of its room
StaleResume ==
  /\ last'.op = "resume"
  /\ tasks[last'.task].round # ResolvedRoom.currentRound

\* C19: every battleResult reports the round in which its two submissions
\* were appended and credits only that round: a handler resumed after a
\* startGame / requestNextRound of its room broadcasts no battleResult with
\* another round number and increments no score for submissions that
\* startRound has cleared from pending.
C19_ResultOfItsRound ==
  [][\A e \in Results(emitted') :
       last'.op = "resume" =>
         /\ e.round = tasks[last'.task].round
         /\ StaleResume => e.scores = Scores(ResolvedRoom)]_vars


\* C20: each round of a room is resolved at most once: between two
\* consecutive startRound calls for a room at most one battleResult is
\* broadcast, whatever playerChoice events and disconnects the round sees;
\* in particular no two steps in a row broadcast a battleResult for the same
\* room and the same started round.
C20_ResolvedOnce ==
  [][\A e \in Results(emitted), f \in Results(emitted') :
       ~(e.to = f.to /\ e.round = f.round /\ e.round >= 1)]_vars


\* C21: once the disconnect handler of a connection has run, no registered
\* room's players list holds a player with that connection's id, also when
\* the connection had created or joined several rooms, or one room twice.
C21_DisconnectPurges ==
  last.op = "disconnect" =>
    \A c \in Codes : ~PlayerOf(last.socket, c)

=============================================================================
